---- MODULE Spec2Model ----
(***************************************************************************)
(* clamdpy: a client for the clamd text protocol.                          *)
(* Model of ClamdNetworkSocket (sockets.py) and of the reply parsers       *)
(* (models.py).  Text is a sequence of characters, the wire carries        *)
(* sequences of byte values 0..255.                                        *)
(***************************************************************************)
EXTENDS Integers, Sequences, FiniteSets, TLC

\* ------------------------------------------------------------------------
\* Characters, bytes and the UTF-8 codec (ASCII range)
\* ------------------------------------------------------------------------

\* control characters are named, printable characters stand for themselves
LF == "LF"
NUL == "NUL"
TAB == "TAB"
CR == "CR"

Printable ==
  << " ", "!", "DQUOTE", "#", "$", "%", "&", "'", "LPAREN", "RPAREN", "STAR", "+", ",", "-", ".", "/",
     "0", "1", "2", "3", "4", "5", "6", "7", "8", "9", ":", ";", "<", "=", ">", "?",
     "@", "A", "B", "C", "D", "E", "F", "G", "H", "I", "J", "K", "L", "M", "N", "O",
     "P", "Q", "R", "S", "T", "U", "V", "W", "X", "Y", "Z", "[", "BSLASH", "]", "^", "_",
     "BTICK", "a", "b", "c", "d", "e", "f", "g", "h", "i", "j", "k", "l", "m", "n", "o",
     "p", "q", "r", "s", "t", "u", "v", "w", "x", "y", "z", "{", "|", "}", "~" >>

Chr ==
  [b \in 0..127 |->
     IF b = 0 THEN NUL
     ELSE IF b = 9 THEN TAB
     ELSE IF b = 10 THEN LF
     ELSE IF b = 13 THEN CR
     ELSE IF b >= 32 /\ b <= 126 THEN Printable[b - 31]
     ELSE "CTL"]

Alphabet == {Chr[b] : b \in {0, 9, 10, 13} \cup (32..126)}

Ord == [c \in Alphabet |-> CHOOSE b \in {0, 9, 10, 13} \cup (32..126) : Chr[b] = c]

\* str.encode("utf-8") on ASCII text
RECURSIVE Encode(_)
Encode(s) == IF s = << >> THEN << >> ELSE << Ord[s[1]] >> \o Encode(Tail(s))

\* bytes.decode("utf-8"): a byte >= 128 that starts no valid sequence raises
DecodeFails(bs) == \E k \in 1..Len(bs) : bs[k] > 127

RECURSIVE Decode(_)
Decode(bs) == IF bs = << >> THEN << >> ELSE << Chr[bs[1]] >> \o Decode(Tail(bs))

\* ------------------------------------------------------------------------
\* str methods
\* ------------------------------------------------------------------------

Whitespace == {" ", LF, TAB, CR}

\* w occurs in s at position k
OccursAt(s, w, k) ==
  /\ k >= 1
  /\ k + Len(w) - 1 <= Len(s)
  /\ \A j \in 1..Len(w) : s[k + j - 1] = w[j]

\* `w in s`
Contains(s, w) == \E k \in 1..(Len(s) + 1) : OccursAt(s, w, k)

\* str.rfind, 1-based, 0 when absent
RFind(s, w) ==
  LET ks == {k \in 1..(Len(s) + 1) : OccursAt(s, w, k)}
  IN  IF ks = {} THEN 0 ELSE CHOOSE k \in ks : \A j \in ks : j <= k

\* str.find, 1-based, 0 when absent
Find(s, w) ==
  LET ks == {k \in 1..(Len(s) + 1) : OccursAt(s, w, k)}
  IN  IF ks = {} THEN 0 ELSE CHOOSE k \in ks : \A j \in ks : k <= j

\* s.rsplit(w, 1)
RSplit1(s, w) ==
  LET k == RFind(s, w)
  IN  IF k = 0 THEN << s >>
      ELSE << SubSeq(s, 1, k - 1), SubSeq(s, k + Len(w), Len(s)) >>

\* s.strip(chars) / s.strip()
StripChars(s, chars) ==
  LET keep == {k \in 1..Len(s) : s[k] \notin chars}
  IN  IF keep = {} THEN << >>
      ELSE SubSeq(s, CHOOSE k \in keep : \A j \in keep : k <= j,
                     CHOOSE k \in keep : \A j \in keep : j <= k)

Strip(s) == StripChars(s, Whitespace)

\* s.split(c) for a one-character separator
RECURSIVE Split(_, _)
Split(s, c) ==
  LET k == Find(s, << c >>)
  IN  IF k = 0 THEN << s >>
      ELSE << SubSeq(s, 1, k - 1) >> \o Split(SubSeq(s, k + 1, Len(s)), c)

\* c.join(parts)
RECURSIVE Join(_, _)
Join(parts, c) ==
  IF Len(parts) = 0 THEN << >>
  ELSE IF Len(parts) = 1 THEN parts[1]
  ELSE parts[1] \o c \o Join(Tail(parts), c)

EndsWith(s, w) == Len(w) <= Len(s) /\ OccursAt(s, w, Len(s) - Len(w) + 1)

StartsWith(s, w) == OccursAt(s, w, 1)

\* ------------------------------------------------------------------------
\* Text constants of the sources
\* ------------------------------------------------------------------------

\* an absent value (None) is the empty tuple, a present one a 1-tuple
None == << >>

Some(x) == << x >>

UNKNOWN_COMMAND == << "U", "N", "K", "N", "O", "W", "N", " ", "C", "O", "M", "M", "A", "N", "D" >>

COMMAND_READ_TIMED_OUT == << "C", "O", "M", "M", "A", "N", "D", " ", "R", "E", "A", "D", " ", "T", "I", "M", "E", "D", " ", "O", "U", "T" >>

TxtERROR == << "E", "R", "R", "O", "R" >>

TxtOK == << "O", "K" >>

TxtFOUND == << "F", "O", "U", "N", "D" >>

TxtSizeLimit == << "I", "N", "S", "T", "R", "E", "A", "M", " ", "s", "i", "z", "e", " ", "l", "i", "m", "i", "t", " ", "e", "x", "c", "e", "e", "d", "e", "d" >>

TxtUnableToMatch == << "U", "n", "a", "b", "l", "e", " ", "t", "o", " ", "m", "a", "t", "c", "h", " ", "s", "t", "r", "i", "n", "g", ":", " " >>

TxtStream == << "s", "t", "r", "e", "a", "m" >>

TxtErrConnecting == << "E", "r", "r", "o", "r", " ", "w", "h", "i", "l", "e", " ", "c", "o", "n", "n", "e", "c", "t", "i", "n", "g", " ", "t", "o", " " >>

TxtErrReading == << "E", "r", "r", "o", "r", " ", "w", "h", "i", "l", "e", " ", "r", "e", "a", "d", "i", "n", "g", " ", "f", "r", "o", "m", " ", "s", "o", "c", "k", "e", "t", ":", " " >>

CmdPING == << "P", "I", "N", "G" >>

CmdRELOAD == << "R", "E", "L", "O", "A", "D" >>

CmdSHUTDOWN == << "S", "H", "U", "T", "D", "O", "W", "N" >>

CmdVERSION == << "V", "E", "R", "S", "I", "O", "N" >>

CmdSTATS == << "S", "T", "A", "T", "S" >>

CmdSCAN == << "S", "C", "A", "N" >>

CmdCONTSCAN == << "C", "O", "N", "T", "S", "C", "A", "N" >>

CmdMULTISCAN == << "M", "U", "L", "T", "I", "S", "C", "A", "N" >>

CmdINSTREAM == << "I", "N", "S", "T", "R", "E", "A", "M" >>

\* ------------------------------------------------------------------------
\* Command frame (ClamdNetworkSocket._endline, ._send)
\* ------------------------------------------------------------------------

\* variant of _endline that is the newline in both modes
EndLineNewline(line_terminator) == LF

EndLine(line_terminator) == IF line_terminator = "n" THEN LF ELSE NUL

\* variant of _send without the `if args:` test
CommandTextAlwaysSpace(line_terminator, command, args) ==
  << line_terminator >> \o command \o << " " >> \o Join(args, << " " >>)
    \o << EndLine(line_terminator) >>

\* the text _send builds before encoding it
CommandText(line_terminator, command, args) ==
  << line_terminator >> \o command
    \o (IF Len(args) > 0 THEN << " " >> \o Join(args, << " " >>) ELSE << >>)
    \o << EndLine(line_terminator) >>

\* ------------------------------------------------------------------------
\* pathlib.Path (POSIX flavour): parsing normalises the text
\* ------------------------------------------------------------------------

PathRoot(s) ==
  IF StartsWith(s, << "/", "/" >>) /\ ~StartsWith(s, << "/", "/", "/" >>) THEN << "/", "/" >>
  ELSE IF StartsWith(s, << "/" >>) THEN << "/" >>
  ELSE << >>

PathParts(s) ==
  SelectSeq(Split(s, "/"), LAMBDA part : part # << >> /\ part # << "." >>)

\* str(Path(s))
PathOf(s) ==
  LET root == PathRoot(s)
      parts == PathParts(s)
  IN  IF root = << >> /\ parts = << >> THEN << "." >>
      ELSE root \o Join(parts, << "/" >>)

\* str(Path(s).absolute()) in the working directory cwd
PathAbsolute(s, cwd) ==
  IF PathRoot(s) # << >> THEN PathOf(s) ELSE PathOf(cwd \o << "/" >> \o s)

\* ------------------------------------------------------------------------
\* models.py: RESULT_REGEX and ScanResult._from_str
\* ------------------------------------------------------------------------

Statuses == {TxtFOUND, TxtOK, TxtERROR}

NoMatch == [matched |-> FALSE, path |-> << >>, reason |-> None, status |-> << >>]

\* RESULT_REGEX.match(string):
\*   ^(?P<path>[^:]*): ((?P<reason>.+) )?(?P<status>(FOUND|OK|ERROR))$
\* [^:]* stops at the first colon; "." matches anything but a newline; "$"
\* matches at the end and just before a newline that ends the string.
ResultRegexMatch(string) ==
  LET colon == Find(string, << ":" >>)
      rest == SubSeq(string, colon + 2, Len(string))
      body == IF EndsWith(rest, << LF >>) THEN SubSeq(rest, 1, Len(rest) - 1) ELSE rest
      sts == {st \in Statuses : EndsWith(body, st)}
      status == CHOOSE st \in sts : TRUE
      pre == SubSeq(body, 1, Len(body) - Len(status))
      reason == SubSeq(pre, 1, Len(pre) - 1)
  IN  IF colon = 0 \/ ~OccursAt(string, << ":", " " >>, colon) THEN NoMatch
      ELSE IF sts = {} THEN NoMatch
      ELSE IF pre = << >>
        THEN [matched |-> TRUE, path |-> SubSeq(string, 1, colon - 1),
              reason |-> None, status |-> status]
      ELSE IF Len(pre) >= 2 /\ pre[Len(pre)] = " " /\ \A k \in 1..Len(reason) : reason[k] # LF
        THEN [matched |-> TRUE, path |-> SubSeq(string, 1, colon - 1),
              reason |-> Some(reason), status |-> status]
      ELSE NoMatch

\* exceptions.py: the attributes the constructors set
\* ScanResult.path is a Path, or the str literal "stream"
PathValue(text) == [ispath |-> TRUE, text |-> PathOf(text)]

StreamLiteral == [ispath |-> FALSE, text |-> TxtStream]

NoScan == [path |-> [ispath |-> FALSE, text |-> << >>], reason |-> None, status |-> << >>]

ExcUnknownCommand(command) ==
  [type |-> "UnknownCommand", command |-> Some(command), error |-> None,
   msg |-> None, errorno |-> None]

ExcCommandReadTimedOut(command) ==
  [type |-> "CommandReadTimedOut", command |-> Some(command), error |-> None,
   msg |-> None, errorno |-> None]

ExcResponseError(command, error) ==
  [type |-> "ResponseError", command |-> Some(command), error |-> Some(error),
   msg |-> None, errorno |-> None]

ExcBufferTooLongError(error) ==
  [type |-> "BufferTooLongError", command |-> Some(CmdINSTREAM), error |-> Some(error),
   msg |-> None, errorno |-> None]

\* variant of ConnectionError that keeps the message only
ExcConnectionErrorNoCode(msg, errorno) ==
  [type |-> "ConnectionError", command |-> None, error |-> None,
   msg |-> Some(msg), errorno |-> None]

ExcConnectionError(msg, errorno) ==
  [type |-> "ConnectionError", command |-> None, error |-> None,
   msg |-> Some(msg), errorno |-> errorno]

\* an exception of the runtime that the library does not wrap
ExcBuiltin(type, errorno) ==
  [type |-> type, command |-> None, error |-> None, msg |-> None, errorno |-> errorno]

NoExc == [type |-> "", command |-> None, error |-> None, msg |-> None, errorno |-> None]

\* variant of _from_str that takes the path of the line for a stream too
ScanResultFromStrNoStream(string, command, stream) ==
  LET match == ResultRegexMatch(string)
  IN  IF ~match.matched
        THEN [raised |-> TRUE,
              exc |-> ExcResponseError(command, TxtUnableToMatch \o string),
              scan |-> NoScan]
        ELSE [raised |-> FALSE, exc |-> NoExc,
              scan |-> [path |-> PathValue(match.path),
                        reason |-> match.reason,
                        status |-> match.status]]

\* ScanResult._from_str(string, command, stream)
ScanResultFromStr(string, command, stream) ==
  LET match == ResultRegexMatch(string)
  IN  IF ~match.matched
        THEN [raised |-> TRUE,
              exc |-> ExcResponseError(command, TxtUnableToMatch \o string),
              scan |-> NoScan]
        ELSE [raised |-> FALSE, exc |-> NoExc,
              scan |-> [path |-> IF stream THEN StreamLiteral ELSE PathValue(match.path),
                        reason |-> match.reason,
                        status |-> match.status]]

\* ------------------------------------------------------------------------
\* models.py: VersionInfo._from_str
\* ------------------------------------------------------------------------

DigitChars == {Chr[b] : b \in 48..57}

DigitVal(c) == Ord[c] - 48

RECURSIVE DigitsValue(_)
DigitsValue(ds) ==
  IF ds = << >> THEN 0 ELSE 10 * DigitsValue(SubSeq(ds, 1, Len(ds) - 1)) + DigitVal(ds[Len(ds)])

\* int(text): surrounding whitespace, one sign, digits with single underscores between
IntParse(text) ==
  LET t == Strip(text)
      signed == t # << >> /\ t[1] \in {"+", "-"}
      d == IF signed THEN Tail(t) ELSE t
      ok == /\ d # << >>
            /\ \A k \in 1..Len(d) : d[k] \in DigitChars \cup {"_"}
            /\ d[1] # "_" /\ d[Len(d)] # "_"
            /\ \A k \in 1..(Len(d) - 1) : ~(d[k] = "_" /\ d[k + 1] = "_")
      mag == DigitsValue(SelectSeq(d, LAMBDA c : c # "_"))
  IN  [ok |-> ok, value |-> IF ~ok THEN 0 ELSE IF signed /\ t[1] = "-" THEN 0 - mag ELSE mag]

Lower(c) == IF Ord[c] >= 65 /\ Ord[c] <= 90 THEN Chr[Ord[c] + 32] ELSE c

RECURSIVE LowerText(_)
LowerText(t) == IF t = << >> THEN << >> ELSE << Lower(t[1]) >> \o LowerText(Tail(t))

\* abbreviated names of the C locale, as _strptime lower-cases them
WeekdayNames ==
  << << "m", "o", "n" >>, << "t", "u", "e" >>, << "w", "e", "d" >>, << "t", "h", "u" >>,
     << "f", "r", "i" >>, << "s", "a", "t" >>, << "s", "u", "n" >> >>

MonthNames ==
  << << "j", "a", "n" >>, << "f", "e", "b" >>, << "m", "a", "r" >>, << "a", "p", "r" >>,
     << "m", "a", "y" >>, << "j", "u", "n" >>, << "j", "u", "l" >>, << "a", "u", "g" >>,
     << "s", "e", "p" >>, << "o", "c", "t" >>, << "n", "o", "v" >>, << "d", "e", "c" >> >>

\* first position >= p of text that holds no character of chars
RECURSIVE SkipWhile(_, _, _)
SkipWhile(text, p, chars) ==
  IF p <= Len(text) /\ text[p] \in chars THEN SkipWhile(text, p + 1, chars) ELSE p

IsLeap(y) == (y % 4 = 0 /\ y % 100 # 0) \/ y % 400 = 0

\* variant of the calendar without leap years
DaysInMonthNoLeap(y, m) ==
  IF m = 2 THEN 28
  ELSE IF m \in {4, 6, 9, 11} THEN 30 ELSE 31

DaysInMonth(y, m) ==
  IF m = 2 THEN (IF IsLeap(y) THEN 29 ELSE 28)
  ELSE IF m \in {4, 6, 9, 11} THEN 30 ELSE 31

NoDate == [year |-> 0, month |-> 0, day |-> 0, hour |-> 0, minute |-> 0, second |-> 0]

\* datetime.strptime(text, "%a %b %d %H:%M:%S %Y"): the format's blanks match
\* runs of whitespace, names match in any case, %d is 1..31, %H 0..23,
\* %M 0..59, %S 0..61 in one or two digits, %Y exactly four digits, and
\* nothing may follow; datetime() then rejects year 0, a day the month does
\* not have and a second above 59
StrpTime(text) ==
  LET p1 == 4
      p2 == SkipWhile(text, p1, Whitespace)
      p3 == p2 + 3
      p4 == SkipWhile(text, p3, Whitespace)
      p5 == SkipWhile(text, p4, DigitChars)
      p6 == SkipWhile(text, p5, Whitespace)
      p7 == SkipWhile(text, p6, DigitChars)
      p8 == SkipWhile(text, p7 + 1, DigitChars)
      p9 == SkipWhile(text, p8 + 1, DigitChars)
      p10 == SkipWhile(text, p9, Whitespace)
      p11 == SkipWhile(text, p10, DigitChars)
      wd == LowerText(SubSeq(text, 1, 3))
      mn == LowerText(SubSeq(text, p2, p2 + 2))
      dtxt == SubSeq(text, p4, p5 - 1)
      htxt == SubSeq(text, p6, p7 - 1)
      mtxt == SubSeq(text, p7 + 1, p8 - 1)
      stxt == SubSeq(text, p8 + 1, p9 - 1)
      ytxt == SubSeq(text, p10, p11 - 1)
      shape == /\ Len(text) >= 3 /\ \E k \in 1..7 : WeekdayNames[k] = wd
               /\ p2 > p1 /\ p2 + 2 <= Len(text) /\ \E k \in 1..12 : MonthNames[k] = mn
               /\ p4 > p3
               /\ Len(dtxt) \in {1, 2} /\ DigitsValue(dtxt) \in 1..31
               /\ p6 > p5
               /\ Len(htxt) \in {1, 2} /\ DigitsValue(htxt) \in 0..23
               /\ p7 <= Len(text) /\ text[p7] = ":"
               /\ Len(mtxt) \in {1, 2} /\ DigitsValue(mtxt) \in 0..59
               /\ p8 <= Len(text) /\ text[p8] = ":"
               /\ Len(stxt) \in {1, 2} /\ DigitsValue(stxt) \in 0..61
               /\ p10 > p9
               /\ Len(ytxt) = 4 /\ p11 = Len(text) + 1
      month == CHOOSE k \in 1..12 : MonthNames[k] = mn
      year == DigitsValue(ytxt)
      valid == /\ year >= 1
               /\ DigitsValue(dtxt) <= DaysInMonth(year, month)
               /\ DigitsValue(stxt) <= 59
  IN  IF shape /\ valid
        THEN [ok |-> TRUE,
              date |-> [year |-> year, month |-> month, day |-> DigitsValue(dtxt),
                        hour |-> DigitsValue(htxt), minute |-> DigitsValue(mtxt),
                        second |-> DigitsValue(stxt)]]
        ELSE [ok |-> FALSE, date |-> NoDate]

NoVersion == [version |-> << >>, signature |-> 0, signature_date |-> NoDate]

\* VersionInfo._from_str(string); the fields are evaluated left to right
VersionFromStr(string) ==
  LET splitted == Split(string, "/")
      sig == IntParse(splitted[2])
      date == StrpTime(splitted[3])
  IN  IF Len(splitted) < 2
        THEN [raised |-> TRUE, exc |-> ExcBuiltin("IndexError", None), info |-> NoVersion]
      ELSE IF ~sig.ok
        THEN [raised |-> TRUE, exc |-> ExcBuiltin("ValueError", None), info |-> NoVersion]
      ELSE IF Len(splitted) < 3
        THEN [raised |-> TRUE, exc |-> ExcBuiltin("IndexError", None), info |-> NoVersion]
      ELSE IF ~date.ok
        THEN [raised |-> TRUE, exc |-> ExcBuiltin("ValueError", None), info |-> NoVersion]
      ELSE [raised |-> FALSE, exc |-> NoExc,
            info |-> [version |-> splitted[1], signature |-> sig.value,
                      signature_date |-> date.date]]

\* ------------------------------------------------------------------------
\* struct.pack(b"!L", n): 4 bytes, unsigned, network byte order
\* ------------------------------------------------------------------------

\* variant of struct.pack with the host's (little-endian) byte order, b"<L"
PackLittleEndian(n) ==
  << n % 256, (n \div 256) % 256, (n \div 65536) % 256, (n \div 16777216) % 256 >>

PackL(n) ==
  << (n \div 16777216) % 256, (n \div 65536) % 256, (n \div 256) % 256, n % 256 >>

\* str(n) for n >= 0, as the f-strings format the port
RECURSIVE IntToStr(_)
IntToStr(n) ==
  IF n < 10 THEN << Chr[48 + n] >>
  ELSE IntToStr(n \div 10) \o << Chr[48 + (n % 10)] >>

\* ------------------------------------------------------------------------
\* Bounds of the model
\* ------------------------------------------------------------------------

\* largest max_chunk_size of a session or of an instream call
MaxChunk == 2

\* longest byte source given to instream
MaxSrcLen == 3

\* most lines in a reply of the daemon
MaxLines == 3

\* most arguments of a generic command
MaxArgs == 2

\* sockets that can exist at a time (socket() fails beyond)
MaxSockets == 2

\* ------------------------------------------------------------------------
\* Inputs: session configurations, callers' arguments, daemon replies
\* ------------------------------------------------------------------------

DefaultHost == << "1", "2", "7", ".", "0", ".", "0", ".", "1" >>

DefaultPort == 3310

DefaultMaxChunkSize == 1024

\* sessions constructed with the defaults, in either terminator mode
DefaultConfigs ==
  [host : {DefaultHost}, port : {DefaultPort}, timeout : {None},
   max_chunk_size : {DefaultMaxChunkSize}, line_terminator : {"n", "z"}]

\* sessions constructed with a timeout or a small chunk size as well
Configs ==
  [host : {DefaultHost}, port : {DefaultPort}, timeout : {None, Some(5)},
   max_chunk_size : 1..MaxChunk, line_terminator : {"n", "z"}]

\* os.getcwd() of the calling process
Cwd == << "/", "w" >>

\* errors of the transport: OSError(strerror) or OSError(errno, strerror)
OSErrors ==
  { [errno |-> None, strerror |-> << "t", "i", "m", "e", "d", " ", "o", "u", "t" >>],
    [errno |-> Some(111), strerror |-> << "r", "e", "f", "u", "s", "e", "d" >>] }

\* a byte source: read(n) of a "full" source returns min(n, remaining) bytes
\* (io.BytesIO), read(n) of a "short" source may return fewer (a raw stream)
RECURSIVE SourceData(_)
SourceData(len) == IF len = 0 THEN << >> ELSE Append(SourceData(len - 1), 96 + len)

Sources == [data : {SourceData(len) : len \in 0..MaxSrcLen}, pos : {0}, kind : {"full", "short"}]

OneSource == [data : {SourceData(1)}, pos : {0}, kind : {"full"}]

NoSource == [data |-> << >>, pos |-> 0, kind |-> "full"]

\* per-call max_chunk_size of instream: None, 0 or a size
ChunkArgs == {None} \cup {Some(n) : n \in 0..MaxChunk}

ScanPaths == { << "/", "a" >>, << "b" >>, << "/", "a", " ", "b", "/", "/", "c" >> }

OnePath == { << "/", "a" >> }

OneVerb == { << "X" >> }

NoArgs == { << >> }

Verbs == { << "P", "I", "N", "G" >>, << "X" >>, << "X", " ", "a" >> }

ArgWords == { << "a" >>, << "a", " ", "b" >>, <<  >>, << "a", LF >>, << NUL >> }

RECURSIVE ArgListsUpTo(_)
ArgListsUpTo(n) ==
  IF n = 0 THEN { << >> }
  ELSE ArgListsUpTo(n - 1)
         \cup {Append(args, w) : args \in {a \in ArgListsUpTo(n - 1) : Len(a) = n - 1}, w \in ArgWords}

\* the argument lists of at most MaxArgs words
CommandArgLists == ArgListsUpTo(MaxArgs)

\* a result line of the daemon: <path>: [<reason> ]<status>
FormatLine(t) ==
  t.path \o << ":", " " >> \o (IF t.reason = None THEN << >> ELSE t.reason[1] \o << " " >>) \o t.status

FirstTriples ==
  [path : { << "/", "a" >>, << "/", "a", "/", "/", "b", "/" >>, << "s", "t", "r", "e", "a", "m" >> },
   reason : { None, Some(<< "V", " ", "d" >>), Some(<< "E", ":", " ", "n", "." >>) },
   status : Statuses]

NextTriples ==
  { [path |-> << "/", "b" >>, reason |-> None, status |-> TxtOK],
    [path |-> << "/", "c" >>, reason |-> Some(<< "E" >>), status |-> TxtERROR] }

\* lines a daemon can answer with
OtherLines ==
  { << "U", "N", "K", "N", "O", "W", "N", " ", "C", "O", "M", "M", "A", "N", "D" >>,
    << "C", "O", "M", "M", "A", "N", "D", " ", "R", "E", "A", "D", " ", "T", "I", "M", "E", "D", " ", "O", "U", "T" >>,
    << "P", "O", "N", "G" >>,
    << "c", ":", "/", "a", ":", " ", "O", "K" >>,
    << "c", ":", " ", "/", "a", ":", " ", "O", "K" >>,
    << "I", "N", "S", "T", "R", "E", "A", "M", " ", "s", "i", "z", "e", " ", "l", "i", "m", "i", "t", " ", "e", "x", "c", "e", "e", "d", "e", "d", " ", "E", "R", "R", "O", "R" >>,
    << "I", "N", "S", "T", "R", "E", "A", "M", " ", "s", "i", "z", "e", " ", "l", "i", "m", "i", "t", " ", "e", "x", "c", "e", "e", "d", "e", "d" >>,
    << " ", "R", " ", "E", "R", "R", "O", "R" >>,
    << "E", "R", "R", "O", "R", " ", "x", " ", "E", "R", "R", "O", "R", " ", "y" >>,
    << "0", ".", "1", "/", "2", "7", "/", "W", "e", "d", " ", "O", "c", "t", " ", "1", "8", " ", "0", "9", ":", "4", "9", ":", "1", "4", " ", "2", "0", "2", "3" >>,
    << "0", ".", "1", "/", "2", "7" >>,
    << "0", ".", "1", "/", "2", "7", "/", "W", "e", "d", " ", "O", "c", "t", " ", "1", "8", " ", "0", "9", ":", "4", "9", ":", "1", "4", " ", "2", "0", "2", "3", "/", "x" >>,
    <<  >> }

FirstLines == {FormatLine(t) : t \in FirstTriples} \cup OtherLines

NextLines == {FormatLine(t) : t \in NextTriples} \cup { << "j", "u", "n", "k" >>, <<  >> }

\* the sequences of at most n lines: a first line, then lines of NextLines
RECURSIVE LineSeqs(_)
LineSeqs(n) ==
  IF n = 1 THEN { << first >> : first \in FirstLines }
  ELSE LineSeqs(n - 1)
         \cup {Append(ls, l) : ls \in {x \in LineSeqs(n - 1) : Len(x) = n - 1}, l \in NextLines}

ReplyTexts(n) ==
  UNION { { Join(ls, << sep >>) \o trail : ls \in LineSeqs(n), trail \in {<< >>, << sep >>} } :
          sep \in {LF, NUL} }

\* what the daemon sends before it closes the channel; the last one is not UTF-8
Wires(n) == {Encode(t) : t \in ReplyTexts(n)} \cup { << 80, 255 >> }

\* the replies of at most MaxLines lines
ReplyWires == Wires(MaxLines)

FewWires == { Encode(t) : t \in { << "P", "O", "N", "G", LF >>, << "/", "a", ":", " ", "O", "K", NUL >>, << "U", "N", "K", "N", "O", "W", "N", " ", "C", "O", "M", "M", "A", "N", "D", LF >> } }

\* ------------------------------------------------------------------------
\* State
\* ------------------------------------------------------------------------

VARIABLES
  self,    \* the session object: host, port, timeout, max_chunk_size, line_terminator
  inv,     \* per caller: the invocation in progress (arguments, locals, position, outcome)
  socks    \* the socket objects, by identity

vars == << self, inv, socks >>

\* one caller at a time
Procs == {"p1"}

NoOutcome ==
  [kind |-> "none", rtype |-> "", exc |-> NoExc, text |-> << >>, scans |-> << >>,
   version |-> NoVersion]

Raise(exc) == [NoOutcome EXCEPT !.kind = "raise", !.exc = exc]

ReturnNone == [NoOutcome EXCEPT !.kind = "return", !.rtype = "None"]

ReturnStr(text) == [NoOutcome EXCEPT !.kind = "return", !.rtype = "str", !.text = text]

ReturnScans(scans) == [NoOutcome EXCEPT !.kind = "return", !.rtype = "list", !.scans = scans]

ReturnScan(scan) == [NoOutcome EXCEPT !.kind = "return", !.rtype = "ScanResult", !.scans = << scan >>]

ReturnVersion(info) == [NoOutcome EXCEPT !.kind = "return", !.rtype = "VersionInfo", !.version = info]

Idle ==
  [pc |-> "idle", op |-> "", command |-> << >>, args |-> << >>, multiline |-> TRUE,
   raise_on_error |-> TRUE, raw |-> FALSE, buff |-> NoSource,
   max_chunk_size_arg |-> None, max_chunk_size |-> 0,
   chunk |-> << >>, reads |-> 0, sock |-> 0, recv |-> << >>, outcome |-> NoOutcome]

FreeSocket == [state |-> "free", owner |-> "", timeout |-> None, connected |-> FALSE, log |-> << >>]

Init ==
  /\ self \in DefaultConfigs
  /\ inv = [i \in Procs |-> Idle]
  /\ socks = [k \in 1..MaxSockets |-> FreeSocket]

InitAny ==
  /\ self \in Configs
  /\ inv = [i \in Procs |-> Idle]
  /\ socks = [k \in 1..MaxSockets |-> FreeSocket]

\* ------------------------------------------------------------------------
\* Public operations: the call binds the arguments of _command / instream
\* ------------------------------------------------------------------------

Begin(i, op, command, args, multiline, raise_on_error, raw) ==
  /\ inv[i].pc = "idle"
  /\ inv' = [inv EXCEPT ![i] =
       [Idle EXCEPT !.pc = "acquire", !.op = op, !.command = command, !.args = args,
                    !.multiline = multiline, !.raise_on_error = raise_on_error, !.raw = raw]]
  /\ UNCHANGED << self, socks >>

\* ping(): self._command("PING")
Ping(i) == Begin(i, "ping", CmdPING, << >>, TRUE, TRUE, TRUE)

\* reload(): self._command("RELOAD")
Reload(i) == Begin(i, "reload", CmdRELOAD, << >>, TRUE, TRUE, TRUE)

\* stats(): self._command("STATS")
Stats(i) == Begin(i, "stats", CmdSTATS, << >>, TRUE, TRUE, TRUE)

\* shutdown(): acquires a socket and sends, reads nothing
Shutdown(i) == Begin(i, "shutdown", CmdSHUTDOWN, << >>, TRUE, TRUE, TRUE)

\* version(raw): self._command("VERSION"), parsed unless raw
Version(i) == \E raw \in BOOLEAN : Begin(i, "version", CmdVERSION, << >>, TRUE, TRUE, raw)

\* variant of _any_scan that leaves raise_on_error at its default
AnyScanRaising(i, op, command, paths) ==
  \E path \in paths, raw \in BOOLEAN :
    Begin(i, op, command, << PathAbsolute(path, Cwd) >>, TRUE, TRUE, raw)

\* _any_scan(command, path, raw): the absolute path is the one argument,
\* errors in the reply are left to the parser (raise_on_error=False)
AnyScan(i, op, command, paths) ==
  \E path \in paths, raw \in BOOLEAN :
    Begin(i, op, command, << PathAbsolute(path, Cwd) >>, TRUE, FALSE, raw)

Scan(i, paths) == AnyScan(i, "scan", CmdSCAN, paths)

Contscan(i, paths) == AnyScan(i, "contscan", CmdCONTSCAN, paths)

Multiscan(i, paths) == AnyScan(i, "multiscan", CmdMULTISCAN, paths)

\* _command(command, *args, multiline, raise_on_error) called directly
Command(i, verbs, arglists) ==
  \E command \in verbs, args \in arglists, multiline \in BOOLEAN, raise_on_error \in BOOLEAN :
    Begin(i, "command", command, args, multiline, raise_on_error, TRUE)

\* variant that takes the session's size only when the call gives none
EffectiveChunkSizeNoneOnly(arg, configured) ==
  IF arg # None THEN arg[1] ELSE configured

\* max_chunk_size or self.max_chunk_size
EffectiveChunkSize(arg, configured) ==
  IF arg # None /\ arg[1] # 0 THEN arg[1] ELSE configured

\* variant of instream that keeps the chunk size of the call in the session
InstreamStoringSize(i, sources, sizes) ==
  \E buff \in sources, raw \in BOOLEAN, max_chunk_size \in sizes :
    /\ inv[i].pc = "idle"
    /\ self' = [self EXCEPT !.max_chunk_size = EffectiveChunkSize(max_chunk_size, self.max_chunk_size)]
    /\ inv' = [inv EXCEPT ![i] =
         [Idle EXCEPT !.pc = "acquire", !.op = "instream", !.command = CmdINSTREAM,
                      !.raw = raw, !.buff = buff,
                      !.max_chunk_size_arg = max_chunk_size,
                      !.max_chunk_size = self'.max_chunk_size]]
    /\ UNCHANGED socks

\* instream(buff, raw, max_chunk_size)
Instream(i, sources, sizes) ==
  \E buff \in sources, raw \in BOOLEAN, max_chunk_size \in sizes :
    /\ inv[i].pc = "idle"
    /\ inv' = [inv EXCEPT ![i] =
         [Idle EXCEPT !.pc = "acquire", !.op = "instream", !.command = CmdINSTREAM,
                      !.raw = raw, !.buff = buff,
                      !.max_chunk_size_arg = max_chunk_size,
                      !.max_chunk_size = EffectiveChunkSize(max_chunk_size, self.max_chunk_size)]]
    /\ UNCHANGED << self, socks >>

\* ------------------------------------------------------------------------
\* _acquire_socket
\* ------------------------------------------------------------------------

FreeIds == {k \in 1..MaxSockets : socks[k].state = "free"}

NewId == CHOOSE k \in FreeIds : \A j \in FreeIds : k <= j

ConnectMsg(e) ==
  TxtErrConnecting \o self.host \o << ":" >> \o IntToStr(self.port) \o << ":", " " >> \o e.strerror

\* what the `with` statement does with the socket on the way out
Closed(ss, id) == [ss EXCEPT ![id].state = "closed"]

Finish(i, outcome) == [inv EXCEPT ![i].pc = "done", ![i].outcome = outcome]

\* variant of _acquire_socket that hands out a connected socket that is
\* already open when there is one
AcquireSocketPooled(i) ==
  /\ inv[i].pc = "acquire"
  /\ LET open == {k \in 1..MaxSockets : socks[k].state = "open" /\ socks[k].connected}
     IN  IF open # {}
           THEN /\ socks' = socks
                /\ inv' = [inv EXCEPT ![i].pc = "send", ![i].sock = CHOOSE k \in open : TRUE]
           ELSE /\ FreeIds # {}
                /\ socks' = [socks EXCEPT ![NewId] =
                     [state |-> "open", owner |-> i, timeout |-> self.timeout,
                      connected |-> TRUE, log |-> << >>]]
                /\ inv' = [inv EXCEPT ![i].pc = "send", ![i].sock = NewId]
  /\ UNCHANGED self

\* socket(), settimeout() and connect() succeed
AcquireSocket(i) ==
  /\ inv[i].pc = "acquire"
  /\ FreeIds # {}
  /\ socks' = [socks EXCEPT ![NewId] =
       [state |-> "open", owner |-> i, timeout |-> self.timeout, connected |-> TRUE, log |-> << >>]]
  /\ inv' = [inv EXCEPT ![i].pc = "send", ![i].sock = NewId]
  /\ UNCHANGED self

\* socket() raises OSError: no socket exists
AcquireSocketCreateFails(i) ==
  /\ inv[i].pc = "acquire"
  /\ \E e \in OSErrors : inv' = Finish(i, Raise(ExcConnectionError(ConnectMsg(e), e.errno)))
  /\ UNCHANGED << self, socks >>

\* connect() raises OSError: the handler raises ConnectionError and leaves
\* the socket it created as it is
AcquireSocketConnectFails(i) ==
  /\ inv[i].pc = "acquire"
  /\ FreeIds # {}
  /\ socks' = [socks EXCEPT ![NewId] =
       [state |-> "open", owner |-> i, timeout |-> self.timeout, connected |-> FALSE, log |-> << >>]]
  /\ \E e \in OSErrors : inv' = Finish(i, Raise(ExcConnectionError(ConnectMsg(e), e.errno)))
  /\ UNCHANGED self

\* ------------------------------------------------------------------------
\* _send and the upload loop of instream
\* ------------------------------------------------------------------------

Logged(ss, id, ev, data) == [ss EXCEPT ![id].log = Append(@, [ev |-> ev, data |-> data])]

\* _send(sock, command, *args): sock.sendall(cmd.encode("utf-8"))
Send(i) ==
  /\ inv[i].pc = "send"
  /\ LET frame == Encode(CommandText(self.line_terminator, inv[i].command, inv[i].args))
         sent == Logged(socks, inv[i].sock, "sendall", frame)
     IN  IF inv[i].op = "shutdown"
           THEN /\ socks' = Closed(sent, inv[i].sock)
                /\ inv' = Finish(i, ReturnNone)
           ELSE /\ socks' = sent
                /\ inv' = [inv EXCEPT ![i].pc = IF inv[i].op = "instream" THEN "read" ELSE "recv"]
  /\ UNCHANGED self

\* sizes buff.read(n) can return
ReadSizes(buff, n) ==
  LET rem == Len(buff.data) - buff.pos
      most == IF n < 0 \/ n > rem THEN rem ELSE n
  IN  IF most = 0 THEN {0}
      ELSE IF buff.kind = "full" THEN {most}
      ELSE 1..most

\* variant of the loop that ends at the first chunk shorter than max_chunk_size
ReadChunkStopsAtShort(i) ==
  /\ inv[i].pc = "read"
  /\ \E k \in ReadSizes(inv[i].buff, inv[i].max_chunk_size) :
       inv' = [inv EXCEPT
         ![i].chunk = SubSeq(inv[i].buff.data, inv[i].buff.pos + 1, inv[i].buff.pos + k),
         ![i].buff.pos = @ + k,
         ![i].reads = @ + 1,
         ![i].pc = IF k = inv[i].max_chunk_size THEN "sendchunk" ELSE "sendterm"]
  /\ UNCHANGED << self, socks >>

\* chunk = buff.read(max_chunk_size); `while chunk:`
ReadChunk(i) ==
  /\ inv[i].pc = "read"
  /\ \E k \in ReadSizes(inv[i].buff, inv[i].max_chunk_size) :
       inv' = [inv EXCEPT
         ![i].chunk = SubSeq(inv[i].buff.data, inv[i].buff.pos + 1, inv[i].buff.pos + k),
         ![i].buff.pos = @ + k,
         ![i].reads = @ + 1,
         ![i].pc = IF k > 0 THEN "sendchunk" ELSE "sendterm"]
  /\ UNCHANGED << self, socks >>

\* sock.sendall(size + chunk)
SendChunk(i) ==
  /\ inv[i].pc = "sendchunk"
  /\ socks' = Logged(socks, inv[i].sock, "sendall", PackL(Len(inv[i].chunk)) \o inv[i].chunk)
  /\ inv' = [inv EXCEPT ![i].pc = "read"]
  /\ UNCHANGED self

\* sock.sendall(struct.pack(b"!L", 0))
SendTerminator(i) ==
  /\ inv[i].pc = "sendterm"
  /\ socks' = Logged(socks, inv[i].sock, "sendall", PackL(0))
  /\ inv' = [inv EXCEPT ![i].pc = "recv"]
  /\ UNCHANGED self

\* sock.sendall raises OSError: nothing catches it, the `with` closes the socket
SendallFails(i) ==
  /\ inv[i].pc \in {"send", "sendchunk", "sendterm"}
  /\ socks' = Closed(socks, inv[i].sock)
  /\ \E e \in OSErrors : inv' = Finish(i, Raise(ExcBuiltin("OSError", e.errno)))
  /\ UNCHANGED self

\* ------------------------------------------------------------------------
\* _recv
\* ------------------------------------------------------------------------

\* f.readline() of a binary file: through the first b"\n", or everything
ReadLine(wire) ==
  LET k == Find(wire, << 10 >>)
  IN  IF k = 0 THEN wire ELSE SubSeq(wire, 1, k)

\* f.read() / f.readline(), then .decode("utf-8").strip(self._endline)
RecvText(data, line_terminator) == StripChars(Decode(data), {EndLine(line_terminator)})

\* _recv(sock, multiline): wire is all the daemon sends before it closes the channel
Recv(i, wires) ==
  /\ inv[i].pc = "recv"
  /\ \E wire \in wires :
       LET data == IF inv[i].multiline THEN wire ELSE ReadLine(wire)
           got == Logged(socks, inv[i].sock, IF inv[i].multiline THEN "read" ELSE "readline", data)
       IN  IF DecodeFails(data)
             THEN /\ socks' = Closed(got, inv[i].sock)
                  /\ inv' = Finish(i, Raise(ExcBuiltin("UnicodeDecodeError", None)))
             ELSE /\ socks' = got
                  /\ inv' = [inv EXCEPT ![i].recv = RecvText(data, self.line_terminator),
                                        ![i].pc = "classify"]
  /\ UNCHANGED self

\* variant of a failed read that starts the command over on a new socket
RecvFailsRetrying(i) ==
  /\ inv[i].pc = "recv"
  /\ socks' = Closed(socks, inv[i].sock)
  /\ inv' = [inv EXCEPT ![i].pc = "acquire"]
  /\ UNCHANGED self

\* reading raises OSError (the timeout included): wrapped in ConnectionError
RecvFails(i) ==
  /\ inv[i].pc = "recv"
  /\ socks' = Closed(socks, inv[i].sock)
  /\ \E e \in OSErrors :
       inv' = Finish(i, Raise(ExcConnectionError(TxtErrReading \o e.strerror, e.errno)))
  /\ UNCHANGED self

\* ------------------------------------------------------------------------
\* Classification of the reply (_command), parsing (version, _any_scan)
\* ------------------------------------------------------------------------

\* s.split(w, 1)
Split1(s, w) ==
  LET k == Find(s, w)
  IN  IF k = 0 THEN << s >>
      ELSE << SubSeq(s, 1, k - 1), SubSeq(s, k + Len(w), Len(s)) >>

\* variant of _command that cuts the reply at the first ERROR
CommandResultFirstError(command, recv, raise_on_error) ==
  LET response == Split1(recv, TxtERROR)
  IN  IF recv = UNKNOWN_COMMAND THEN Raise(ExcUnknownCommand(command))
      ELSE IF recv = COMMAND_READ_TIMED_OUT THEN Raise(ExcCommandReadTimedOut(command))
      ELSE IF raise_on_error /\ Len(response) > 1
        THEN Raise(ExcResponseError(command, Strip(response[1])))
      ELSE ReturnStr(recv)

\* _command, after _recv: the two sentinels, then the ERROR suffix
CommandResult(command, recv, raise_on_error) ==
  LET response == RSplit1(recv, TxtERROR)
  IN  IF recv = UNKNOWN_COMMAND THEN Raise(ExcUnknownCommand(command))
      ELSE IF recv = COMMAND_READ_TIMED_OUT THEN Raise(ExcCommandReadTimedOut(command))
      ELSE IF raise_on_error /\ Len(response) > 1
        THEN Raise(ExcResponseError(command, Strip(response[1])))
      ELSE ReturnStr(recv)

ParsedOps == {"version", "scan", "contscan", "multiscan"}

\* the end of _command: the socket is closed whatever the result
Classify(i) ==
  /\ inv[i].pc = "classify"
  /\ inv[i].op # "instream"
  /\ LET res == CommandResult(inv[i].command, inv[i].recv, inv[i].raise_on_error)
     IN  inv' = IF res.kind = "return" /\ inv[i].op \in ParsedOps /\ ~inv[i].raw
                  THEN [inv EXCEPT ![i].pc = "parse"]
                  ELSE Finish(i, res)
  /\ socks' = Closed(socks, inv[i].sock)
  /\ UNCHANGED self

\* ScanResult._from_str of each line, in order
RECURSIVE ParseEach(_, _)
ParseEach(lines, command) ==
  IF lines = << >> THEN << >>
  ELSE << ScanResultFromStr(lines[1], command, FALSE) >> \o ParseEach(Tail(lines), command)

RECURSIVE ScansOf(_)
ScansOf(parsed) ==
  IF parsed = << >> THEN << >> ELSE << parsed[1].scan >> \o ScansOf(Tail(parsed))

\* variant of the list comprehension that drops the lines that do not parse
ScanLinesSkipBad(result, command, line_terminator) ==
  LET lines == Split(result, EndLine(line_terminator))
      parsed == ParseEach(lines, command)
      good == SelectSeq(parsed, LAMBDA r : ~r.raised)
  IN  ReturnScans(ScansOf(good))

\* [ScanResult._from_str(line, command) for line in result.split(self._endline)]
ScanLines(result, command, line_terminator) ==
  LET lines == Split(result, EndLine(line_terminator))
      parsed == ParseEach(lines, command)
      bad == {k \in 1..Len(lines) : parsed[k].raised}
  IN  IF bad # {}
        THEN Raise(parsed[CHOOSE k \in bad : \A j \in bad : k <= j].exc)
        ELSE ReturnScans(ScansOf(parsed))

\* VersionInfo._from_str(rv)
VersionResult(rv) ==
  LET res == VersionFromStr(rv)
  IN  IF res.raised THEN Raise(res.exc) ELSE ReturnVersion(res.info)

\* version() and _any_scan() after _command returned
Parse(i) ==
  /\ inv[i].pc = "parse"
  /\ inv' = Finish(i, IF inv[i].op = "version"
                        THEN VersionResult(inv[i].recv)
                        ELSE ScanLines(inv[i].recv, inv[i].command, self.line_terminator))
  /\ UNCHANGED << self, socks >>

\* variant of instream that returns the raw reply before looking at it
InstreamResultRawFirst(result, raw) ==
  LET parsed == ScanResultFromStr(result, CmdINSTREAM, TRUE)
  IN  IF raw THEN ReturnStr(result)
      ELSE IF Contains(result, TxtSizeLimit)
        THEN Raise(ExcBufferTooLongError(Strip(RSplit1(result, TxtERROR)[1])))
      ELSE IF parsed.raised THEN Raise(parsed.exc)
      ELSE ReturnScan(parsed.scan)

\* instream, after _recv
InstreamResult(result, raw) ==
  LET parsed == ScanResultFromStr(result, CmdINSTREAM, TRUE)
  IN  IF Contains(result, TxtSizeLimit)
        THEN Raise(ExcBufferTooLongError(Strip(RSplit1(result, TxtERROR)[1])))
      ELSE IF raw THEN ReturnStr(result)
      ELSE IF parsed.raised THEN Raise(parsed.exc)
      ELSE ReturnScan(parsed.scan)

InstreamFinish(i) ==
  /\ inv[i].pc = "classify"
  /\ inv[i].op = "instream"
  /\ inv' = Finish(i, InstreamResult(inv[i].recv, inv[i].raw))
  /\ socks' = Closed(socks, inv[i].sock)
  /\ UNCHANGED self

\* the caller has the result or the exception and drops it with the
\* invocation's objects
Return(i) ==
  /\ inv[i].pc = "done"
  /\ inv' = [inv EXCEPT ![i] = Idle]
  /\ socks' = [k \in 1..MaxSockets |-> IF socks[k].owner = i THEN FreeSocket ELSE socks[k]]
  /\ UNCHANGED self

\* ------------------------------------------------------------------------
\* Specifications
\* ------------------------------------------------------------------------

\* the steps every operation shares
Step(i) ==
  \/ AcquireSocket(i)
  \/ AcquireSocketCreateFails(i)
  \/ AcquireSocketConnectFails(i)
  \/ Send(i)
  \/ ReadChunk(i)
  \/ SendChunk(i)
  \/ SendTerminator(i)
  \/ SendallFails(i)
  \/ RecvFails(i)
  \/ Classify(i)
  \/ Parse(i)
  \/ InstreamFinish(i)
  \/ Return(i)

\* every operation, against a daemon that answers anything
Next ==
  \E i \in Procs :
    \/ Ping(i)
    \/ Reload(i)
    \/ Stats(i)
    \/ Shutdown(i)
    \/ Version(i)
    \/ Scan(i, OnePath)
    \/ Contscan(i, OnePath)
    \/ Multiscan(i, OnePath)
    \/ Command(i, OneVerb, NoArgs)
    \/ Instream(i, OneSource, {None})
    \/ Recv(i, ReplyWires)
    \/ Step(i)

Spec == Init /\ [][Next]_vars

\* every operation, instream with every byte source and chunk size
NextUpload ==
  \E i \in Procs :
    \/ Ping(i)
    \/ Reload(i)
    \/ Stats(i)
    \/ Shutdown(i)
    \/ Version(i)
    \/ Scan(i, OnePath)
    \/ Contscan(i, OnePath)
    \/ Multiscan(i, OnePath)
    \/ Command(i, OneVerb, NoArgs)
    \/ Instream(i, Sources, ChunkArgs)
    \/ Recv(i, FewWires)
    \/ Step(i)

SpecUpload == InitAny /\ [][NextUpload]_vars

\* one turn of the upload loop of instream: a read of the source, the write
\* of a chunk, the write of the terminator
UploadStep(i) == ReadChunk(i) \/ SendChunk(i) \/ SendTerminator(i)

\* the same, with the calling thread running and reads and writes that
\* return: a call inside its upload loop takes the next step of the loop
SpecUploadLive == InitAny /\ [][NextUpload]_vars /\ \A i \in Procs : WF_vars(UploadStep(i))

\* every operation, with every path, verb and argument list
NextFrame ==
  \E i \in Procs :
    \/ Ping(i)
    \/ Reload(i)
    \/ Stats(i)
    \/ Shutdown(i)
    \/ Version(i)
    \/ Scan(i, ScanPaths)
    \/ Contscan(i, ScanPaths)
    \/ Multiscan(i, ScanPaths)
    \/ Command(i, Verbs, CommandArgLists)
    \/ Instream(i, OneSource, {None})
    \/ Recv(i, FewWires)
    \/ Step(i)

SpecFrame == InitAny /\ [][NextFrame]_vars

\* replies to VERSION of the form A/B/C, each field with what it denotes
VersionFields ==
  [version : { << "0", ".", "1" >>, << "C", "l", "a", "m", "A", "V", " ", "0", ".", "1", "0", "3", ".", "9" >>, << >> },
   sig : { [text |-> << "2", "7" >>, value |-> 27], [text |-> << "2", "7", "0", "6", "5" >>, value |-> 27065],
           [text |-> << "0", "0", "7" >>, value |-> 7] },
   date : { [text |-> << "W", "e", "d", " ", "O", "c", "t", " ", "1", "8", " ", "0", "9", ":", "4", "9", ":", "1", "4", " ", "2", "0", "2", "3" >>,
             value |-> [year |-> 2023, month |-> 10, day |-> 18, hour |-> 9, minute |-> 49, second |-> 14]],
            [text |-> << "T", "h", "u", " ", "F", "e", "b", " ", "2", "9", " ", "2", "3", ":", "5", "9", ":", "5", "9", " ", "2", "0", "2", "4" >>,
             value |-> [year |-> 2024, month |-> 2, day |-> 29, hour |-> 23, minute |-> 59, second |-> 59]],
            [text |-> << "S", "u", "n", " ", "N", "o", "v", " ", " ", "5", " ", "0", "1", ":", "0", "2", ":", "0", "3", " ", "2", "0", "2", "3" >>,
             value |-> [year |-> 2023, month |-> 11, day |-> 5, hour |-> 1, minute |-> 2, second |-> 3]] }]

VersionText(f) == f.version \o << "/" >> \o f.sig.text \o << "/" >> \o f.date.text

\* other replies to VERSION: fewer or more fields, fields that do not convert
OtherVersionLines ==
  { << "0", ".", "1" >>,
    << "0", ".", "1", "/", "2", "7" >>,
    << "0", ".", "1", "/", "2", "7", "/", "W", "e", "d", " ", "O", "c", "t", " ", "1", "8", " ", "0", "9", ":", "4", "9", ":", "1", "4", " ", "2", "0", "2", "3", "/", "x" >>,
    << "0", ".", "1", "/", "2", "7", "/", "W", "e", "d", " ", "O", "c", "t", " ", "1", "8", " ", "0", "9", ":", "4", "9", ":", "1", "4", " ", "2", "0", "2", "3", "/" >>,
    << "0", ".", "1", "/", "x", "/", "W", "e", "d", " ", "O", "c", "t", " ", "1", "8", " ", "0", "9", ":", "4", "9", ":", "1", "4", " ", "2", "0", "2", "3" >>,
    << "0", ".", "1", "/", "2", "7", "/", "W", "e", "d", " ", "O", "c", "t", " ", "3", "2", " ", "0", "9", ":", "4", "9", ":", "1", "4", " ", "2", "0", "2", "3" >>,
    << "0", ".", "1", "/", "x" >>,
    << "U", "N", "K", "N", "O", "W", "N", " ", "C", "O", "M", "M", "A", "N", "D" >>,
    << "0", ".", "1", " ", "E", "R", "R", "O", "R", "/", "2", "7", "/", "W", "e", "d", " ", "O", "c", "t", " ", "1", "8", " ", "0", "9", ":", "4", "9", ":", "1", "4", " ", "2", "0", "2", "3" >> }

\* the replies to VERSION, bare or ended by either terminator
VersionWires ==
  { Encode(t \o trail) : t \in {VersionText(f) : f \in VersionFields} \cup OtherVersionLines,
                         trail \in { << >>, << LF >>, << NUL >> } }

\* every operation, version against every reply to VERSION
NextVersion ==
  \E i \in Procs :
    \/ Ping(i)
    \/ Reload(i)
    \/ Stats(i)
    \/ Shutdown(i)
    \/ Version(i)
    \/ Scan(i, OnePath)
    \/ Contscan(i, OnePath)
    \/ Multiscan(i, OnePath)
    \/ Command(i, OneVerb, NoArgs)
    \/ Instream(i, OneSource, {None})
    \/ Recv(i, VersionWires)
    \/ Step(i)

SpecVersion == Init /\ [][NextVersion]_vars

\* result lines for paths that hold a colon: (path, reason, status)
ColonTriples ==
  [path : { << "c", ":", "/", "a" >>, << "c", ":", " ", "/", "a" >>, << "/", "p", ":", " ", "q", ":", "r" >>, << "/", "d", "/", "f", ":" >> },
   reason : { None, Some(<< "V", " ", "d" >>) },
   status : Statuses]

\* the replies of one such line, bare or ended by either terminator, and a
\* few of lines without a colon in the path
ColonWires ==
  { Encode(t \o trail) :
      t \in {FormatLine(c) : c \in ColonTriples} \cup { << "/", "a", ":", " ", "O", "K" >>, << "/", "a", ":", " ", "V", " ", "d", " ", "F", "O", "U", "N", "D" >>, << "P", "O", "N", "G" >> },
      trail \in { << >>, << LF >>, << NUL >> } }

\* every operation, the scans against result lines with colons in the path
NextColon ==
  \E i \in Procs :
    \/ Ping(i)
    \/ Reload(i)
    \/ Stats(i)
    \/ Shutdown(i)
    \/ Version(i)
    \/ Scan(i, OnePath)
    \/ Contscan(i, OnePath)
    \/ Multiscan(i, OnePath)
    \/ Command(i, OneVerb, NoArgs)
    \/ Instream(i, OneSource, {None})
    \/ Recv(i, ColonWires)
    \/ Step(i)

SpecColon == Init /\ [][NextColon]_vars

\* two threads that call operations of the same session object
Callers == {"p1", "p2"}

InitConcurrent ==
  /\ self \in DefaultConfigs
  /\ inv = [i \in Callers |-> Idle]
  /\ socks = [k \in 1..MaxSockets |-> FreeSocket]

\* the calls of the two threads, their steps interleaved in every order
NextConcurrent ==
  \E i \in Callers :
    \/ Ping(i)
    \/ Version(i)
    \/ Scan(i, OnePath)
    \/ Instream(i, OneSource, {None})
    \/ Recv(i, FewWires)
    \/ Step(i)

SpecConcurrent == InitConcurrent /\ [][NextConcurrent]_vars

\* ------------------------------------------------------------------------
\* Properties
\* ------------------------------------------------------------------------

\* the invocation of i ended after _recv returned a reply
Replied(i) ==
  /\ inv[i].pc = "done"
  /\ inv[i].sock # 0
  /\ LET log == socks[inv[i].sock].log
     IN  /\ log # << >>
         /\ log[Len(log)].ev \in {"read", "readline"}
         /\ ~DecodeFails(log[Len(log)].data)

\* t is s without the whitespace at its two ends
IsTrimOf(t, s) ==
  \E a \in 0..Len(s), b \in 0..Len(s) :
    /\ a + b <= Len(s)
    /\ t = SubSeq(s, a + 1, Len(s) - b)
    /\ \A k \in 1..a : s[k] \in Whitespace
    /\ \A k \in (Len(s) - b + 1)..Len(s) : s[k] \in Whitespace
    /\ t # << >> => t[1] \notin Whitespace /\ t[Len(t)] \notin Whitespace
    /\ t = << >> => a = Len(s) /\ b = 0

HasError(s) == \E k \in 0..(Len(s) - 5) : SubSeq(s, k + 1, k + 5) = TxtERROR

\* pre is the text of s before its last "ERROR"
IsBeforeLastError(pre, s) ==
  \E k \in 0..(Len(s) - 5) :
    /\ SubSeq(s, k + 1, k + 5) = TxtERROR
    /\ \A j \in (k + 1)..(Len(s) - 5) : SubSeq(s, j + 1, j + 5) # TxtERROR
    /\ pre = SubSeq(s, 1, k)

Sentinels == {UNKNOWN_COMMAND, COMMAND_READ_TIMED_OUT}

\* operations whose result is the result of _command
CommandOps(i) ==
  \/ inv[i].op \in {"command", "ping", "reload", "stats"}
  \/ inv[i].op \in ParsedOps /\ inv[i].raw

ScanOps == {"scan", "contscan", "multiscan"}

\* C1: in every operation that reads a reply, instream included, the reply
\* "UNKNOWN COMMAND" ends the call with UnknownCommand(verb sent) and the
\* reply "COMMAND READ TIMED OUT" with CommandReadTimedOut(verb sent)
C1_SentinelsEveryOperation ==
  \A i \in Procs :
    Replied(i) =>
      /\ inv[i].recv = UNKNOWN_COMMAND =>
           inv[i].outcome = Raise(ExcUnknownCommand(inv[i].command))
      /\ inv[i].recv = COMMAND_READ_TIMED_OUT =>
           inv[i].outcome = Raise(ExcCommandReadTimedOut(inv[i].command))

\* C2: _command on a reply that is no sentinel: with raise_on_error and an
\* "ERROR" in the reply it raises ResponseError(command, trimmed text before
\* the last "ERROR"); otherwise it returns the reply unchanged
C2_RunCommandErrorSuffix ==
  \A i \in Procs :
    Replied(i) /\ CommandOps(i) /\ inv[i].recv \notin Sentinels =>
      IF inv[i].raise_on_error /\ HasError(inv[i].recv)
        THEN /\ inv[i].outcome.kind = "raise"
             /\ inv[i].outcome.exc.type = "ResponseError"
             /\ inv[i].outcome.exc.command = Some(inv[i].command)
             /\ \E pre \in {SubSeq(inv[i].recv, 1, k) : k \in 0..Len(inv[i].recv)} :
                  /\ IsBeforeLastError(pre, inv[i].recv)
                  /\ inv[i].outcome.exc.error # None
                  /\ IsTrimOf(inv[i].outcome.exc.error[1], pre)
        ELSE inv[i].outcome = ReturnStr(inv[i].recv)

\* C2 at work: a reply with two "ERROR" and blanks around the text before the last one
C2_Witness ==
  \E i \in Procs :
    /\ Replied(i) /\ inv[i].op = "command" /\ inv[i].raise_on_error
    /\ inv[i].outcome.exc.type = "ResponseError"
    /\ \E pre \in {SubSeq(inv[i].recv, 1, k) : k \in 0..Len(inv[i].recv)} :
         /\ IsBeforeLastError(pre, inv[i].recv)
         /\ HasError(pre)
         /\ inv[i].outcome.exc.error[1] # pre

\* the bytes the invocation of i read from its socket
ReplyData(i) == socks[inv[i].sock].log[Len(socks[inv[i].sock].log)].data

\* the Path a path text denotes
ExpectedPath(text) ==
  IF text = << "/", "a", "/", "/", "b", "/" >> THEN << "/", "a", "/", "b" >> ELSE text

\* replies of well-formed result lines, as sequences of (path, reason, status)
RECURSIVE TripleSeqs(_)
TripleSeqs(n) ==
  IF n = 1 THEN { << first >> : first \in FirstTriples }
  ELSE TripleSeqs(n - 1)
         \cup {Append(ts, t) : ts \in {x \in TripleSeqs(n - 1) : Len(x) = n - 1}, t \in NextTriples}

RECURSIVE FormatLines(_)
FormatLines(ts) ==
  IF ts = << >> THEN << >> ELSE << FormatLine(ts[1]) >> \o FormatLines(Tail(ts))

RECURSIVE ExpectedScans(_)
ExpectedScans(ts) ==
  IF ts = << >> THEN << >>
  ELSE << [path |-> [ispath |-> TRUE, text |-> ExpectedPath(ts[1].path)],
           reason |-> ts[1].reason, status |-> ts[1].status] >> \o ExpectedScans(Tail(ts))

\* the replies of at most MaxLines well-formed lines
ReplyTriples == TripleSeqs(MaxLines)

\* the lines of ts, separated by the terminator, with or without a last terminator
WiresOf(ts, term) ==
  LET text == Join(FormatLines(ts), << term >>)
  IN  {Encode(text), Encode(text \o << term >>)}

\* C3: scan, contscan and multiscan in parsed mode turn a reply of k
\* well-formed lines, separated by the session's terminator, into the k
\* outcomes of these lines in their order; a line with status ERROR is an
\* outcome of the list, not a failure
C3_ScanOutcomesInOrder ==
  \A i \in Procs :
    Replied(i) /\ inv[i].op \in ScanOps /\ ~inv[i].raw =>
      \A ts \in ReplyTriples :
        ReplyData(i) \in WiresOf(ts, EndLine(self.line_terminator)) =>
          inv[i].outcome = ReturnScans(ExpectedScans(ts))

\* C3 at work: two outcomes, the second an Error outcome
C3_Witness ==
  \E i \in Procs :
    /\ Replied(i) /\ inv[i].op \in ScanOps /\ ~inv[i].raw
    /\ inv[i].outcome.rtype = "list"
    /\ Len(inv[i].outcome.scans) = 2
    /\ inv[i].outcome.scans[1].path.text = << "/", "a", "/", "b" >>
    /\ inv[i].outcome.scans[2].status = TxtERROR

\* C5: an outcome returned by instream has the literal "stream" as its path,
\* whatever path the reply line carried, and the reason and status of that
\* line; "stream: OK" gives (stream, None, OK)
C5_InstreamPathIsStream ==
  \A i \in Procs :
    inv[i].pc = "done" /\ inv[i].op = "instream" /\ inv[i].outcome.rtype = "ScanResult" =>
      /\ Len(inv[i].outcome.scans) = 1
      /\ inv[i].outcome.scans[1].path = [ispath |-> FALSE, text |-> TxtStream]
      /\ \A t \in FirstTriples :
           ReplyData(i) \in WiresOf(<< t >>, EndLine(self.line_terminator)) =>
             /\ inv[i].outcome.scans[1].reason = t.reason
             /\ inv[i].outcome.scans[1].status = t.status
      /\ inv[i].recv = << "s", "t", "r", "e", "a", "m", ":", " ", "O", "K" >> =>
           inv[i].outcome.scans[1] =
             [path |-> [ispath |-> FALSE, text |-> TxtStream], reason |-> None, status |-> TxtOK]

\* C5 at work: the reply line named a file and gave a reason
C5_Witness ==
  \E i \in Procs :
    /\ inv[i].pc = "done" /\ inv[i].op = "instream" /\ inv[i].outcome.rtype = "ScanResult"
    /\ inv[i].recv = << "/", "a", ":", " ", "V", " ", "d", " ", "F", "O", "U", "N", "D" >>
    /\ inv[i].outcome.scans[1].reason = Some(<< "V", " ", "d" >>)

HasText(s, w) == \E k \in 0..(Len(s) - Len(w)) : SubSeq(s, k + 1, k + Len(w)) = w

\* C6: instream, raw or parsed, on a reply that contains "INSTREAM size
\* limit exceeded" raises BufferTooLongError (command INSTREAM) whose error
\* is the trimmed text before the last "ERROR" (the trimmed reply when it
\* holds no "ERROR"); nothing is returned
C6_InstreamSizeLimit ==
  \A i \in Procs :
    Replied(i) /\ inv[i].op = "instream" /\ HasText(inv[i].recv, TxtSizeLimit) =>
      /\ inv[i].outcome.kind = "raise"
      /\ inv[i].outcome.rtype = ""
      /\ inv[i].outcome.exc.type = "BufferTooLongError"
      /\ inv[i].outcome.exc.command = Some(CmdINSTREAM)
      /\ inv[i].outcome.exc.error # None
      /\ IF HasError(inv[i].recv)
           THEN \E pre \in {SubSeq(inv[i].recv, 1, k) : k \in 0..Len(inv[i].recv)} :
                  /\ IsBeforeLastError(pre, inv[i].recv)
                  /\ IsTrimOf(inv[i].outcome.exc.error[1], pre)
           ELSE IsTrimOf(inv[i].outcome.exc.error[1], inv[i].recv)

\* C6 at work: raw mode, the size limit reported with the ERROR suffix
C6_Witness ==
  \E i \in Procs :
    /\ Replied(i) /\ inv[i].op = "instream" /\ inv[i].raw
    /\ inv[i].recv = << "I", "N", "S", "T", "R", "E", "A", "M", " ", "s", "i", "z", "e", " ", "l", "i", "m", "i", "t", " ", "e", "x", "c", "e", "e", "d", "e", "d", " ", "E", "R", "R", "O", "R" >>
    /\ inv[i].outcome.exc.type = "BufferTooLongError"
    /\ inv[i].outcome.exc.error = Some(TxtSizeLimit)

\* the lines of the reply of i and those that do not match RESULT_REGEX
ReplyLines(i) == Split(inv[i].recv, EndLine(self.line_terminator))

BadLines(i) == {k \in 1..Len(ReplyLines(i)) : ~ResultRegexMatch(ReplyLines(i)[k]).matched}

\* C8 as stated: a reply with a line that does not match fails with an error
\* of kind MalformedReply and returns no outcomes
C8_MalformedReplyKind ==
  \A i \in Procs :
    Replied(i) /\ inv[i].op \in ScanOps /\ ~inv[i].raw /\ BadLines(i) # {} =>
      /\ inv[i].outcome.kind = "raise"
      /\ inv[i].outcome.exc.type = "MalformedReply"
      /\ inv[i].outcome.scans = << >>

\* C8 as the code has it: a reply with a line that does not match (an empty
\* line included) returns no outcomes; unless the whole reply is a sentinel,
\* the call raises ResponseError(command, "Unable to match string: " + the
\* first such line)
C8_NoPartialSuccess ==
  \A i \in Procs :
    Replied(i) /\ inv[i].op \in ScanOps /\ ~inv[i].raw /\ BadLines(i) # {} =>
      /\ inv[i].outcome.kind = "raise"
      /\ inv[i].outcome.scans = << >>
      /\ inv[i].recv = UNKNOWN_COMMAND => inv[i].outcome.exc = ExcUnknownCommand(inv[i].command)
      /\ inv[i].recv = COMMAND_READ_TIMED_OUT =>
           inv[i].outcome.exc = ExcCommandReadTimedOut(inv[i].command)
      /\ inv[i].recv \notin Sentinels =>
           \E k \in BadLines(i) :
             /\ \A j \in BadLines(i) : k <= j
             /\ inv[i].outcome.exc =
                  ExcResponseError(inv[i].command, TxtUnableToMatch \o ReplyLines(i)[k])

\* C8 at work: an empty line between two well-formed lines
C8_Witness ==
  \E i \in Procs :
    /\ Replied(i) /\ inv[i].op \in ScanOps /\ ~inv[i].raw
    /\ Len(ReplyLines(i)) = 3
    /\ BadLines(i) = {2}
    /\ ReplyLines(i)[2] = << >>
    /\ inv[i].outcome.exc.type = "ResponseError"

\* instream of i has written its upload and is at or past the read of the reply
UploadDone(i) ==
  /\ inv[i].op = "instream"
  /\ inv[i].sock # 0
  /\ inv[i].pc \in {"recv", "classify"} \/ Replied(i)

\* what i has written to its socket, in order
Writes(i) == SelectSeq(socks[inv[i].sock].log, LAMBDA e : e.ev = "sendall")

CeilDiv(a, b) == (a + b - 1) \div b

\* d is a 4-byte big-endian length n followed by n bytes
IsChunk(d, n) ==
  /\ Len(d) = n + 4
  /\ \A k \in 1..4 : d[k] \in 0..255
  /\ d[1] * 16777216 + d[2] * 65536 + d[3] * 256 + d[4] = n

RECURSIVE Payloads(_)
Payloads(ws) ==
  IF ws = << >> THEN << >> ELSE SubSeq(ws[1].data, 5, Len(ws[1].data)) \o Payloads(Tail(ws))

\* the writes of an upload but for the number of chunks: the INSTREAM frame,
\* chunks of 1..c bytes under their big-endian length that add up to the
\* source, four zero bytes last, and the reply read after them only
UploadFraming(i) ==
  LET ws == Writes(i)
      log == socks[inv[i].sock].log
      chunks == SubSeq(ws, 2, Len(ws) - 1)
  IN  /\ Len(ws) >= 2
      /\ ws[1].data = Encode(CommandText(self.line_terminator, CmdINSTREAM, << >>))
      /\ \A k \in 1..Len(chunks) :
           \E n \in 1..inv[i].max_chunk_size : IsChunk(chunks[k].data, n)
      /\ Payloads(chunks) = inv[i].buff.data
      /\ ws[Len(ws)].data = << 0, 0, 0, 0 >>
      /\ \A k \in 1..Len(log) : log[k].ev # "sendall" => k = Len(log) /\ k = Len(ws) + 1

\* C4 as stated: the upload of a source of L bytes with chunk size c is the
\* INSTREAM frame, exactly ceil(L/c) chunks and the zero-length terminator
C4_ExactlyCeilChunks ==
  \A i \in Procs :
    UploadDone(i) =>
      /\ UploadFraming(i)
      /\ Len(Writes(i)) - 2 = CeilDiv(Len(inv[i].buff.data), inv[i].max_chunk_size)

\* C4 as the code has it: the number of chunks is ceil(L/c) when every read
\* returns as many bytes as asked for or all that is left, and between
\* ceil(L/c) and L when the source returns less
C4_UploadFraming ==
  \A i \in Procs :
    UploadDone(i) =>
      /\ UploadFraming(i)
      /\ Len(Writes(i)) - 2 >= CeilDiv(Len(inv[i].buff.data), inv[i].max_chunk_size)
      /\ Len(Writes(i)) - 2 <= Len(inv[i].buff.data)
      /\ inv[i].buff.kind = "full" =>
           Len(Writes(i)) - 2 = CeilDiv(Len(inv[i].buff.data), inv[i].max_chunk_size)

\* C4 at work: three bytes in chunks of two, the reply read
C4_Witness ==
  \E i \in Procs :
    /\ UploadDone(i) /\ Replied(i)
    /\ Len(inv[i].buff.data) = 3
    /\ inv[i].max_chunk_size = 2
    /\ Len(Writes(i)) = 4
    /\ Writes(i)[2].data = << 0, 0, 0, 2, 97, 98 >>
    /\ Writes(i)[3].data = << 0, 0, 0, 1, 99 >>

\* C7: when an invocation has returned or raised, every socket it created is closed
C7_SocketsClosedAtExit ==
  \A i \in Procs :
    inv[i].pc = "done" =>
      \A k \in 1..MaxSockets : socks[k].owner = i => socks[k].state = "closed"

\* i has written its command frame
FrameSent(i) == inv[i].sock # 0 /\ socks[inv[i].sock].log # << >>

\* the frame of i as text, without the terminator characters at its two ends
StrippedFrame(i) ==
  StripChars(Decode(socks[inv[i].sock].log[1].data), {EndLine(self.line_terminator)})

\* C9 as stated: the frame without the terminator at its ends determines the
\* verb and the argument list; no other verb and arguments give the same text
C9_FrameRoundTrip ==
  \A i \in Procs :
    FrameSent(i) =>
      \A command \in Verbs, args \in CommandArgLists :
        StripChars(CommandText(self.line_terminator, command, args),
                   {EndLine(self.line_terminator)}) = StrippedFrame(i)
          => command = inv[i].command /\ args = inv[i].args

PlainWord(w) == \A k \in 1..Len(w) : w[k] # " " /\ w[k] # EndLine(self.line_terminator)

\* C9 as the code has it: for a verb and arguments without a space and
\* without the terminator character, the frame without the terminator at its
\* ends is the mode letter followed by the verb and the arguments joined by
\* single spaces; splitting the text after the letter on spaces gives the
\* verb and the arguments back
C9_FrameRoundTripPlainWords ==
  \A i \in Procs :
    /\ FrameSent(i)
    /\ PlainWord(inv[i].command)
    /\ \A k \in 1..Len(inv[i].args) : PlainWord(inv[i].args[k])
    => /\ StrippedFrame(i)[1] = self.line_terminator
       /\ Split(Tail(StrippedFrame(i)), " ") = << inv[i].command >> \o inv[i].args

\* C9 at work: a verb with two arguments, the second one empty
C9_Witness ==
  \E i \in Procs :
    /\ FrameSent(i)
    /\ inv[i].op = "command"
    /\ inv[i].args = << << "a" >>, << >> >>
    /\ StrippedFrame(i) = << self.line_terminator, "X", " ", "a", " " >>

\* C10: a failure while writing to the socket reaches the caller as
\* ConnectionError, never as the OSError of the transport
C10_WriteFailureIsConnectionError ==
  \A i \in Procs :
    inv[i].pc = "done" /\ inv[i].outcome.kind = "raise" => inv[i].outcome.exc.type # "OSError"

\* the sockets the invocation of i has created
Owned(i) == {k \in 1..MaxSockets : socks[k].owner = i}

\* what has been written to socket k of ss, in order
Sent(ss, k) == SelectSeq(ss[k].log, LAMBDA e : e.ev = "sendall")

\* the writes to socket k that are the command frame of i
FramesOn(k, i) ==
  SelectSeq(socks[k].log,
            LAMBDA e : /\ e.ev = "sendall"
                       /\ e.data = Encode(CommandText(self.line_terminator, inv[i].command, inv[i].args)))

\* an invocation holds at most one socket and has written its frame at most once
AcquiredOnce ==
  \A i \in Procs :
    /\ Cardinality(Owned(i)) <= 1
    /\ \A k \in Owned(i) : Len(FramesOn(k, i)) <= 1
    /\ inv[i].sock # 0 => Owned(i) = {inv[i].sock}

\* a step that ends an invocation with an exception, or leaves it ended,
\* writes to none of its sockets and creates none, but for the socket of the
\* acquisition that failed
NothingAfterFailure ==
  \A i \in Procs :
    inv'[i].pc = "done" /\ inv'[i].outcome.kind = "raise" =>
      \A k \in 1..MaxSockets :
        socks'[k].owner = i =>
          /\ Len(Sent(socks', k)) <= Len(Sent(socks, k))
          /\ socks[k].owner # i => inv[i].pc = "acquire" /\ inv[i].sock = 0

\* C11: one invocation acquires at most one socket and writes its command
\* frame at most once; when it fails (connect, send, receive, sentinel,
\* ResponseError, parse) it acquires nothing and writes nothing more before
\* the exception is with the caller: nothing is retried
C11_NoRetry == []AcquiredOnce /\ [][NothingAfterFailure]_vars

\* C11 at work: the read of the reply failed after the frame was written
C11_Witness ==
  \E i \in Procs :
    /\ inv[i].pc = "done"
    /\ inv[i].outcome.exc.type = "ConnectionError"
    /\ inv[i].sock # 0
    /\ Owned(i) = {inv[i].sock}
    /\ Len(FramesOn(inv[i].sock, i)) = 1
    /\ Len(socks[inv[i].sock].log) = 1

\* what the code makes of the reply read on the socket of i, from the verb,
\* the arguments and the mode of this call alone
OwnResult(i) ==
  LET text == RecvText(ReplyData(i), self.line_terminator)
      res == CommandResult(inv[i].command, text, inv[i].raise_on_error)
  IN  IF inv[i].op = "instream" THEN InstreamResult(text, inv[i].raw)
      ELSE IF res.kind = "raise" \/ inv[i].op \notin ParsedOps \/ inv[i].raw THEN res
      ELSE IF inv[i].op = "version" THEN VersionResult(text)
      ELSE ScanLines(text, inv[i].command, self.line_terminator)

\* each caller has a socket of its own, created by it, that carries its own
\* frame, and its result is the one of its own reply
IndependentCalls ==
  \A i \in Callers :
    /\ \A j \in Callers \ {i} : inv[i].sock # 0 => inv[i].sock # inv[j].sock
    /\ inv[i].sock # 0 =>
         /\ socks[inv[i].sock].owner = i
         /\ Len(Sent(socks, inv[i].sock)) >= 1 =>
              Sent(socks, inv[i].sock)[1].data =
                Encode(CommandText(self.line_terminator, inv[i].command, inv[i].args))
    /\ Replied(i) => inv[i].outcome = OwnResult(i)

\* a step is the step of one caller: it leaves the other caller's invocation
\* and the other caller's socket as they are
OwnSocketOnly ==
  \E i \in Callers :
    /\ \A j \in Callers \ {i} : inv'[j] = inv[j]
    /\ \A k \in 1..MaxSockets :
         socks'[k] # socks[k] => socks[k].owner = i \/ socks'[k].owner = i

\* C12: two invocations that run at the same time on one session object have
\* two distinct sockets; in every interleaving the result or error of each
\* is determined by its own verb, arguments and the reply on its own socket,
\* and no step of one reads from or writes to the socket of the other
C12_ConcurrentCallsIndependent == []IndependentCalls /\ [][OwnSocketOnly]_vars

\* C12 at work: a ping and a scan in flight together, each with its own reply
C12_Witness ==
  /\ Replied("p1") /\ Replied("p2")
  /\ inv["p1"].op = "ping" /\ inv["p2"].op = "scan" /\ ~inv["p2"].raw
  /\ inv["p1"].sock # inv["p2"].sock
  /\ inv["p1"].outcome = ReturnStr(<< "P", "O", "N", "G" >>)
  /\ inv["p2"].outcome.kind = "raise"
  /\ inv["p2"].outcome.exc.type = "UnknownCommand"

\* C13: version on a reply A/B/C, bare or ended by the session's terminator,
\* with B a decimal integer and C a date "%a %b %d %H:%M:%S %Y": parsed mode
\* returns VersionInfo(A, the value of B, the date of C), raw mode returns
\* the text A/B/C
C13_VersionParsed ==
  \A i \in Procs :
    Replied(i) /\ inv[i].op = "version" =>
      \A f \in VersionFields :
        ReplyData(i) \in { Encode(VersionText(f)),
                           Encode(VersionText(f) \o << EndLine(self.line_terminator) >>) } =>
          inv[i].outcome =
            IF inv[i].raw THEN ReturnStr(VersionText(f))
            ELSE ReturnVersion([version |-> f.version, signature |-> f.sig.value,
                                signature_date |-> f.date.value])

\* C13 at work: "ClamAV 0.103.9/27065/Thu Feb 29 23:59:59 2024", parsed
C13_Witness ==
  \E i \in Procs :
    /\ Replied(i) /\ inv[i].op = "version" /\ ~inv[i].raw
    /\ inv[i].outcome.rtype = "VersionInfo"
    /\ inv[i].outcome.version.version = << "C", "l", "a", "m", "A", "V", " ", "0", ".", "1", "0", "3", ".", "9" >>
    /\ inv[i].outcome.version.signature = 27065
    /\ inv[i].outcome.version.signature_date =
         [year |-> 2024, month |-> 2, day |-> 29, hour |-> 23, minute |-> 59, second |-> 59]

\* the bytes of the first write on the socket of i
FrameOf(i) == socks[inv[i].sock].log[1].data

\* the byte of the terminator character of the session: b"\n" or b"\0"
TermByte == IF self.line_terminator = "n" THEN 10 ELSE 0

\* the byte of the letter that selects the mode: b"n" or b"z"
ModeByte == IF self.line_terminator = "n" THEN 110 ELSE 122

\* each argument after one space
RECURSIVE SpacedArgs(_)
SpacedArgs(args) ==
  IF args = << >> THEN << >> ELSE << " " >> \o args[1] \o SpacedArgs(Tail(args))

\* the reply handed on has the character of byte b at neither end
StrippedOf(i, b) ==
  Replied(i) /\ inv[i].recv # << >> =>
    Ord[inv[i].recv[1]] # b /\ Ord[inv[i].recv[Len(inv[i].recv)]] # b

ReplyRead(i) == socks[inv[i].sock].log[Len(socks[inv[i].sock].log)]

\* C15: after the zero-length terminator instream reads one line: it takes
\* the reply with readline, without waiting for the end of the stream, and
\* what the daemon sends after the first line is no part of its result
C15_InstreamReadsOneLine ==
  \A i \in Procs :
    Replied(i) /\ inv[i].op = "instream" =>
      /\ ReplyRead(i).ev = "readline"
      /\ \A k \in 1..Len(inv[i].recv) : inv[i].recv[k] # EndLine(self.line_terminator)

\* the exception classes of exceptions.py (subclasses of ClamdException)
ClamdExceptions ==
  {"UnknownCommand", "CommandReadTimedOut", "ResponseError", "BufferTooLongError",
   "ConnectionError"}

\* C16: version in parsed mode returns a VersionInfo only for a reply of
\* exactly three fields between "/"; a reply of fewer or more fields fails
\* with an exception of the library, not with one of the runtime
C16_ExactlyThreeFields ==
  \A i \in Procs :
    Replied(i) /\ inv[i].op = "version" /\ ~inv[i].raw =>
      /\ inv[i].outcome.rtype = "VersionInfo" => Len(Split(inv[i].recv, "/")) = 3
      /\ Len(Split(inv[i].recv, "/")) # 3 =>
           /\ inv[i].outcome.kind = "raise"
           /\ inv[i].outcome.exc.type \in ClamdExceptions

\* C17: an outcome parsed from a reply line has no reason when its status is
\* OK; a reason comes with FOUND and ERROR only
C17_NoReasonWhenOK ==
  \A i \in Procs :
    inv[i].pc = "done" /\ inv[i].outcome.rtype \in {"list", "ScanResult"} =>
      \A k \in 1..Len(inv[i].outcome.scans) :
        inv[i].outcome.scans[k].status = TxtOK => inv[i].outcome.scans[k].reason = None

\* position of the first colon of a text that holds one
FirstColon(text) ==
  CHOOSE k \in 1..Len(text) : text[k] = ":" /\ \A j \in 1..(k - 1) : text[j] # ":"

\* the result line of t is the reply of i, bare or ended by the session's terminator
IsReplyLine(i, t) == ReplyData(i) \in WiresOf(<< t >>, EndLine(self.line_terminator))

\* C18: a result line for a path that holds a colon never parses, neither
\* with the full path nor with the path cut at its first colon: the scan
\* raises ResponseError(command, "Unable to match string: " + line)
C18_ColonAlwaysFails ==
  \A i \in Procs :
    Replied(i) /\ inv[i].op \in ScanOps /\ ~inv[i].raw =>
      \A t \in ColonTriples :
        IsReplyLine(i, t) =>
          inv[i].outcome =
            Raise(ExcResponseError(inv[i].command, TxtUnableToMatch \o FormatLine(t)))

\* what the code does with such a line: it cuts it at its first colon. When
\* a blank follows that colon the line parses, the path is the text before
\* the colon and the rest of the path, with its own colon, starts the
\* reason; when anything else follows, the scan raises ResponseError
CutAtFirstColon ==
  \A i \in Procs :
    Replied(i) /\ inv[i].op \in ScanOps /\ ~inv[i].raw =>
      \A t \in ColonTriples :
        IsReplyLine(i, t) =>
          LET k == FirstColon(t.path)
          IN  IF k < Len(t.path) /\ t.path[k + 1] = " "
                THEN inv[i].outcome =
                       ReturnScans(<< [path |-> [ispath |-> TRUE, text |-> SubSeq(t.path, 1, k - 1)],
                                       reason |-> Some(SubSeq(t.path, k + 2, Len(t.path)) \o << ":" >>
                                                  \o (IF t.reason = None THEN << >>
                                                      ELSE << " " >> \o t.reason[1])),
                                       status |-> t.status] >>)
                ELSE inv[i].outcome =
                       Raise(ExcResponseError(inv[i].command, TxtUnableToMatch \o FormatLine(t)))

\* "/p: q:r: V d FOUND" parsed as path /p with reason "q:r: V d"
CutPathReturned ==
  \E i \in Procs :
    /\ Replied(i) /\ inv[i].op \in ScanOps /\ ~inv[i].raw
    /\ inv[i].recv = << "/", "p", ":", " ", "q", ":", "r", ":", " ", "V", " ", "d", " ", "F", "O", "U", "N", "D" >>
    /\ inv[i].outcome.rtype = "list"
    /\ inv[i].outcome.scans[1].path.text = << "/", "p" >>
    /\ inv[i].outcome.scans[1].reason = Some(<< "q", ":", "r", ":", " ", "V", " ", "d" >>)
    /\ inv[i].outcome.scans[1].status = TxtFOUND

\* the step in which the read of the reply of i raises: the invocation ends
\* at _recv with nothing read
ReadRaises(i) ==
  /\ inv[i].pc = "recv"
  /\ inv'[i].pc = "done"
  /\ socks'[inv[i].sock].log = socks[inv[i].sock].log

\* the caller of i gets ConnectionError for the error e of the transport:
\* the message of e after "Error while reading from socket: ", the code of e
\* when e has one and no code when e is a message only
WrappedReadError(i, e) ==
  /\ inv'[i].outcome.kind = "raise"
  /\ inv'[i].outcome.exc.type = "ConnectionError"
  /\ inv'[i].outcome.exc.msg = Some(TxtErrReading \o e.strerror)
  /\ inv'[i].outcome.exc.errorno = e.errno
  /\ e.errno = None <=> inv'[i].outcome.exc.errorno = None

\* C19: in every operation that reads a reply (those of _command and
\* instream), an error of the transport raised by the read, the expiry of the
\* timeout included, reaches the caller as ConnectionError, with the code of
\* the error when it has a code and a message and without a code when it has
\* a message only
C19_ReadErrorIsConnectionError ==
  [][\A i \in Procs : ReadRaises(i) => \E e \in OSErrors : WrappedReadError(i, e)]_vars

\* C19 at work: instream on a session with a timeout, the read timed out
C19_Witness ==
  \E i \in Procs :
    /\ inv[i].pc = "done" /\ inv[i].op = "instream"
    /\ self.timeout # None
    /\ inv[i].sock # 0
    /\ Len(Sent(socks, inv[i].sock)) >= 2
    /\ inv[i].outcome.exc.type = "ConnectionError"
    /\ inv[i].outcome.exc.msg = Some(TxtErrReading \o << "t", "i", "m", "e", "d", " ", "o", "u", "t" >>)
    /\ inv[i].outcome.exc.errorno = None

\* C20: no step of any operation (ping, reload, shutdown, version, stats, the
\* scans, instream with or without a chunk size of its own, ended by a
\* result or by an exception) changes the session: host, port, timeout,
\* max_chunk_size and line_terminator stay as the constructor set them
C20_SessionReadOnly ==
  [][/\ self'.host = self.host
     /\ self'.port = self.port
     /\ self'.timeout = self.timeout
     /\ self'.max_chunk_size = self.max_chunk_size
     /\ self'.line_terminator = self.line_terminator]_vars

\* C20 at work: instream has uploaded with a chunk size of its own, other
\* than the session's, and has failed
C20_Witness ==
  \E i \in Procs :
    /\ inv[i].pc = "done" /\ inv[i].op = "instream"
    /\ inv[i].outcome.kind = "raise"
    /\ inv[i].reads >= 2
    /\ inv[i].max_chunk_size = 1
    /\ self.max_chunk_size = 2

\* instream of i is in its upload loop
Uploading(i) == inv[i].op = "instream" /\ inv[i].pc \in {"read", "sendchunk", "sendterm"}

\* instream of i has left the loop: it is at the read of the reply or
\* beyond, or a write has raised
LoopLeft(i) == inv[i].op = "instream" /\ inv[i].pc \in {"recv", "classify", "done"}

\* an upload of an empty source is the INSTREAM frame and the four zero bytes
EmptySourceWrites(i) ==
  Len(inv[i].buff.data) = 0 =>
    /\ Len(Writes(i)) = 2
    /\ Writes(i)[1].data = Encode(CommandText(self.line_terminator, CmdINSTREAM, << >>))
    /\ Writes(i)[2].data = << 0, 0, 0, 0 >>

\* C21 as stated: the loop of an upload of L bytes with chunk size c >= 1
\* ends after exactly ceil(L/c) + 1 reads, and an empty source gives the
\* frame and the terminator only
ExactlyCeilReads ==
  \A i \in Procs :
    UploadDone(i) =>
      /\ inv[i].reads = CeilDiv(Len(inv[i].buff.data), inv[i].max_chunk_size) + 1
      /\ EmptySourceWrites(i)

C21_ExactlyCeilPlusOneReads ==
  /\ []ExactlyCeilReads
  /\ \A i \in Procs : Uploading(i) ~> LoopLeft(i)

\* the reads of an upload: one per chunk and the empty one that ends the
\* loop; ceil(L/c) + 1 when every read returns as many bytes as asked for
\* or all that is left, up to L + 1 when the source returns less
ReadsOfUpload ==
  \A i \in Procs :
    UploadDone(i) =>
      /\ inv[i].max_chunk_size >= 1
      /\ inv[i].reads = Len(Writes(i)) - 1
      /\ inv[i].reads >= CeilDiv(Len(inv[i].buff.data), inv[i].max_chunk_size) + 1
      /\ inv[i].reads <= Len(inv[i].buff.data) + 1
      /\ inv[i].buff.kind = "full" =>
           inv[i].reads = CeilDiv(Len(inv[i].buff.data), inv[i].max_chunk_size) + 1
      /\ inv[i].buff.pos = Len(inv[i].buff.data)
      /\ EmptySourceWrites(i)

\* C21 as the code has it: for a source of L bytes and c >= 1 the loop ends,
\* at the read of the reply unless a write raises, after between ceil(L/c) + 1
\* and L + 1 reads that take the whole source, exactly ceil(L/c) + 1 of them
\* when no read is short; for an empty source the writes are the INSTREAM
\* frame and the zero-length terminator
C21_UploadLoopEnds ==
  /\ []ReadsOfUpload
  /\ \A i \in Procs : Uploading(i) ~> LoopLeft(i)

\* C21 at work: three bytes, chunk size 2, read one byte at a time: four reads
C21_Witness ==
  \E i \in Procs :
    /\ UploadDone(i)
    /\ inv[i].pc = "recv"
    /\ inv[i].buff.kind = "short"
    /\ Len(inv[i].buff.data) = 3
    /\ inv[i].max_chunk_size = 2
    /\ inv[i].reads = 4

\* the chunk size the upload of i reads with, by the max_chunk_size of the call
EffectiveSizeOfCall(i) ==
  LET arg == inv[i].max_chunk_size_arg
  IN  /\ arg = None => inv[i].max_chunk_size = self.max_chunk_size
      /\ arg = Some(0) => inv[i].max_chunk_size = self.max_chunk_size
      /\ arg # None /\ arg # Some(0) => inv[i].max_chunk_size = arg[1]

\* the upload of i took its source whole and sent it
SourceSent(i) ==
  LET ws == Writes(i)
  IN  /\ inv[i].buff.pos = Len(inv[i].buff.data)
      /\ Payloads(SubSeq(ws, 2, Len(ws) - 1)) = inv[i].buff.data
      /\ Len(inv[i].buff.data) > 0 => inv[i].reads >= 2 /\ Len(ws) >= 3

\* C22: an instream call reads with its own max_chunk_size when that is given
\* and not 0, and with the session's when it is absent or 0; a call with 0
\* on a session whose size is at least 1 still uploads its whole source
C22_EffectiveChunkSize ==
  \A i \in Procs :
    /\ inv[i].op = "instream" => EffectiveSizeOfCall(i)
    /\ UploadDone(i) /\ inv[i].max_chunk_size_arg = Some(0) /\ self.max_chunk_size >= 1
         => SourceSent(i)

\* C22 at work: a call with max_chunk_size 0 on a session of size 2 has sent
\* its three bytes as two chunks
C22_Witness ==
  \E i \in Procs :
    /\ UploadDone(i)
    /\ inv[i].max_chunk_size_arg = Some(0)
    /\ self.max_chunk_size = 2
    /\ inv[i].buff.data = << 97, 98, 99 >>
    /\ Len(Writes(i)) = 4
    /\ Writes(i)[2].data = << 0, 0, 0, 2, 97, 98 >>

====
